---- MODULE Spec2Model ----
(***************************************************************************)
(* Email classification and sync pipeline of the job-application CRM:      *)
(* EmailParser.classify_email, EmailProcessor.process_email,               *)
(* EmailSyncService.sync_emails_for_account and sync_all_active_accounts.  *)
(*                                                                         *)
(* Confidences are integers in hundredths (0.85 is 85).  Python None is    *)
(* the value NoneV; a truthy JSON value that is not a string is NonStr.    *)
(***************************************************************************)
EXTENDS Integers, Sequences, FiniteSets, TLC

NoneV == "<None>"
NonStr == "<non-string>"

(* ---------------- bounds of the model ---------------- *)
MaxBatch == 2
MaxTime == 1
MaxCalls == 2
MaxClock == 3
MaxAnalyses == 3

(* ---------------- program constants ---------------- *)
MIN_CONFIDENCE_THRESHOLD == 60
CONFIDENCE_THRESHOLD == 70
APPLICATION_CONFIDENCE == 85
REJECTION_CONFIDENCE == 80
ASSESSMENT_CONFIDENCE == 75
(* cache.set(cache_key, result, 86400): the analyzer's clock counts half    *)
(* days, so that the 24 hours are two ticks                                 *)
CACHE_TTL == 2
JOB_RELATED_TYPES == {"application", "rejection", "assessment", "interview", "interaction"}
PERSONAL_DOMAINS == {"gmail", "outlook", "yahoo", "hotmail", "icloud", "aol"}
JOB_BOARD_DOMAINS == {"indeed", "myworkday", "linkedin", "glassdoor", "ziprecruiter",
                      "monster", "careerbuilder", "simplyhired", "snagajob", "dice",
                      "naukri", "shine", "timesjobs", "naukrigulf", "jobstreet"}
(* the same tuple in the order the for loop of _extract_where_applied visits it *)
JOB_BOARD_ORDER == <<"indeed", "myworkday", "linkedin", "glassdoor", "ziprecruiter",
                     "monster", "careerbuilder", "simplyhired", "snagajob", "dice",
                     "naukri", "shine", "timesjobs", "naukrigulf", "jobstreet">>
invalid_names == {"", "unknown", "unknown company", "n/a", "none",
                  "congratulations", "thank you", "thanks", "hi", "dear",
                  "hello", "greetings", "application", "job", "position",
                  "role", "opportunity", "company", "employer"}

(* ---------------- strings ---------------- *)
(* str.lower(), str.strip() and len() on the strings the model uses. *)
LowerTable == ("Acme" :> "acme") @@ ("ACME" :> "acme") @@ ("Unknown" :> "unknown")
              @@ ("Globex" :> "globex") @@ ("A" :> "a")
              @@ ("Glassdoor" :> "glassdoor") @@ ("Gmail" :> "gmail")
              @@ ("Indeed" :> "indeed") @@ ("This Time" :> "this time")
Lower(s) == IF s \in DOMAIN LowerTable THEN LowerTable[s] ELSE s
Strip(s) == IF s = " " THEN "" ELSE s
StrLen(s) == CASE s = "" -> 0
               [] s \in {" ", "A", "a"} -> 1
               [] s \in {"Acme", "acme", "ACME"} -> 4
               [] s \in {"Gmail", "gmail"} -> 5
               [] s \in {"Globex", "globex", "Indeed", "indeed"} -> 6
               [] s \in {"Glassdoor", "glassdoor", "This Time", "this time"} -> 9
               [] s \in {"Unknown", "unknown"} -> 7
               [] OTHER -> 8
(* str.title() of the first label of a sender domain *)
TitleTable == ("acme" :> "Acme") @@ ("unknown" :> "Unknown") @@ ("globex" :> "Globex")
              @@ ("gmail" :> "Gmail") @@ ("indeed" :> "Indeed")
              @@ ("shine" :> "Shine") @@ ("shinetech" :> "Shinetech")
              @@ ("naukri" :> "Naukri") @@ ("naukrigulf" :> "Naukrigulf")
Title(s) == IF s \in DOMAIN TitleTable THEN TitleTable[s] ELSE s
(* domain.startswith(p): the domains of the model are single labels plus a  *)
(* tld; ProperPrefixes lists the proper prefixes among the model's strings  *)
ProperPrefixes == {<<"shinetech", "shine">>, <<"naukrigulf", "naukri">>,
                   <<"this time", "this ">>}
StartsWith(label, p) == label = p \/ <<label, p>> \in ProperPrefixes

(* ---------------- EmailParser ---------------- *)
(* A message is described by what the regular expressions find in it:      *)
(* app / rej / ass are _matches_patterns for the three families,           *)
(* content_company is the candidate the content patterns capture, cleaned  *)
(* up (NoneV when no pattern matches; the messages of the model match at   *)
(* most one), and sender_label is the first label of the sender's domain   *)
(* (NoneV when the sender has no '@').                                     *)
content_invalid_names == {"job", "position", "role", "application", "indeed", "linkedin",
                          "myworkday", "this time", "this point", "this moment",
                          "that time", "that point", "other applicants",
                          "other candidates", "other people", "other companies",
                          "us", "we", "our", "your", "their", "them", "they", "hi", "dear",
                          "thank you very much for your recent", "thank you", "thanks"}
content_invalid_prefixes == {"this ", "that ", "other ", "thank ", "thanks ", "hi ", "dear "}

(* the validation that ends _extract_company_from_content *)
extract_company_from_content(candidate) ==
  IF candidate = NoneV THEN NoneV
  ELSE IF /\ 2 <= StrLen(candidate) /\ StrLen(candidate) <= 50
          /\ Lower(candidate) \notin content_invalid_names
          /\ ~\E p \in content_invalid_prefixes : StartsWith(Lower(candidate), p)
    THEN candidate
  ELSE NoneV

extract_where_applied(sender_label) ==
  IF sender_label = NoneV THEN NoneV
  ELSE IF \E i \in DOMAIN JOB_BOARD_ORDER : StartsWith(sender_label, JOB_BOARD_ORDER[i])
    THEN LET first == CHOOSE i \in DOMAIN JOB_BOARD_ORDER :
                        /\ StartsWith(sender_label, JOB_BOARD_ORDER[i])
                        /\ \A j \in 1..(i - 1) : ~StartsWith(sender_label, JOB_BOARD_ORDER[j])
         IN Title(JOB_BOARD_ORDER[first])
  ELSE NoneV

extract_company_name(content_company, sender_label) ==
  IF content_company # NoneV THEN content_company
  ELSE IF sender_label = NoneV THEN NoneV
  ELSE IF \E p \in PERSONAL_DOMAINS : StartsWith(sender_label, p) THEN NoneV
  ELSE IF \E j \in JOB_BOARD_DOMAINS : StartsWith(sender_label, j) THEN NoneV
  ELSE Title(sender_label)

classify_email_rejectionFirst(m) ==
  LET email_type == IF m.rej THEN "rejection"
                    ELSE IF m.app THEN "application"
                    ELSE IF m.ass THEN "assessment"
                    ELSE NoneV
      confidence == IF m.rej THEN REJECTION_CONFIDENCE
                    ELSE IF m.app THEN APPLICATION_CONFIDENCE
                    ELSE IF m.ass THEN ASSESSMENT_CONFIDENCE
                    ELSE 0
  IN [type |-> email_type,
      confidence |-> confidence,
      company_name |-> IF email_type = NoneV THEN NoneV
                       ELSE extract_company_name(extract_company_from_content(m.content_company),
                                                 m.sender_label),
      where_applied |-> IF email_type = "application"
                        THEN extract_where_applied(m.sender_label) ELSE NoneV,
      needs_ai |-> (confidence < 70 \/ email_type = NoneV)]

(* data.where_applied is set for application messages only; NoneV also     *)
(* stands for the absent key, which callers read with .get                 *)
classify_email(m) ==
  LET email_type == IF m.app THEN "application"
                    ELSE IF m.rej THEN "rejection"
                    ELSE IF m.ass THEN "assessment"
                    ELSE NoneV
      confidence == IF m.app THEN APPLICATION_CONFIDENCE
                    ELSE IF m.rej THEN REJECTION_CONFIDENCE
                    ELSE IF m.ass THEN ASSESSMENT_CONFIDENCE
                    ELSE 0
  IN [type |-> email_type,
      confidence |-> confidence,
      company_name |-> IF email_type = NoneV THEN NoneV
                       ELSE extract_company_name(extract_company_from_content(m.content_company),
                                                 m.sender_label),
      where_applied |-> IF email_type = "application"
                        THEN extract_where_applied(m.sender_label) ELSE NoneV,
      needs_ai |-> (confidence < 70 \/ email_type = NoneV)]

(* ---------------- EmailProcessor ---------------- *)
(* The analyzer's answer ai is [kind, type, confidence, company_name,      *)
(* error]: kind "raise" is an exception out of analyze_email, otherwise a  *)
(* mapping; error says whether the mapping has an 'error' key;             *)
(* company_name is NoneV when the key is absent or null.                   *)
should_use_ai_threshold80(pattern_result) ==
  \/ pattern_result.type = "application"
  \/ pattern_result.type = NoneV
  \/ pattern_result.needs_ai
  \/ pattern_result.confidence < 80

should_use_ai(pattern_result) ==
  \/ pattern_result.type = "application"
  \/ pattern_result.type = NoneV
  \/ pattern_result.needs_ai
  \/ pattern_result.confidence < CONFIDENCE_THRESHOLD

PatternReturn(pattern_result) ==
  [type |-> pattern_result.type, confidence |-> pattern_result.confidence,
   company_name |-> pattern_result.company_name,
   source |-> "pattern", used_ai |-> FALSE, error |-> FALSE]

NormalizeAIType(t) == IF t = "application_confirmation" THEN "application" ELSE t

Truthy(v) == v # NoneV /\ v # ""
Range(f) == {f[i] : i \in DOMAIN f}

(* an exception that leaves process_email instead of a returned mapping *)
Propagated == [type |-> NoneV, confidence |-> 0, company_name |-> NoneV,
               source |-> "raised", used_ai |-> TRUE, error |-> TRUE]

ExceptHandler_reraise(pattern_result) ==
  IF pattern_result.type = NoneV
  THEN [type |-> "unknown", confidence |-> 0, company_name |-> NoneV,
        source |-> "ai", used_ai |-> TRUE, error |-> TRUE]
  ELSE Propagated

(* except Exception: unknown when the pattern failed too, otherwise fall    *)
(* through to the pattern result                                           *)
ExceptHandler(pattern_result) ==
  IF pattern_result.type = NoneV
  THEN [type |-> "unknown", confidence |-> 0, company_name |-> NoneV,
        source |-> "ai", used_ai |-> TRUE, error |-> TRUE]
  ELSE PatternReturn(pattern_result)

ErrorReturn_patternForApplication(pattern_result, ai) ==
  IF pattern_result.type = "application" THEN PatternReturn(pattern_result)
  ELSE [type |-> ai.type, confidence |-> 0, company_name |-> NoneV,
        source |-> "ai", used_ai |-> TRUE, error |-> TRUE]

(* the return for a mapping with an 'error' key; ai.type is already        *)
(* ai_result.get('type', 'unknown')                                        *)
ErrorReturn(pattern_result, ai) ==
  [type |-> ai.type, confidence |-> 0, company_name |-> NoneV,
   source |-> "ai", used_ai |-> TRUE, error |-> TRUE]

ai_is_valid_byConfidence(pattern_result, ai) ==
  /\ ai.confidence > pattern_result.confidence
  /\ ai.type # "unknown"
  /\ ~ai.error

(* whether the analyzer's answer replaces the pattern result *)
ai_is_valid(pattern_result, ai) ==
  LET is_application == pattern_result.type = "application"
      pattern_failed == pattern_result.type = NoneV
  IN IF is_application \/ pattern_failed
       THEN /\ ai.type \notin {"unknown", NoneV}
            /\ ~ai.error
            /\ (is_application \/ ai.type \in {"application", "application_confirmation"})
                  => Truthy(ai.company_name)
     ELSE /\ ai.confidence > pattern_result.confidence
          /\ ai.type # "unknown"
          /\ ~ai.error

process_email(pattern_result, ai) ==
  LET pattern_failed == pattern_result.type = NoneV
  IN IF ~should_use_ai(pattern_result) THEN PatternReturn(pattern_result)
     ELSE IF ai.kind = "raise" THEN ExceptHandler(pattern_result)
     ELSE IF ai.error THEN ErrorReturn(pattern_result, ai)
     ELSE IF ai_is_valid(pattern_result, ai)
       THEN [type |-> NormalizeAIType(ai.type), confidence |-> ai.confidence,
             company_name |-> ai.company_name,
             source |-> "ai", used_ai |-> TRUE, error |-> FALSE]
     ELSE IF pattern_failed
       THEN [type |-> IF ai.type = NoneV THEN "unknown" ELSE NormalizeAIType(ai.type),
             confidence |-> ai.confidence, company_name |-> ai.company_name,
             source |-> "ai", used_ai |-> TRUE, error |-> FALSE]
     ELSE PatternReturn(pattern_result)

(* ---------------- state ---------------- *)
VARIABLES
  accounts,      \* EmailAccount rows: id -> fields
  detected,      \* AutoDetectedApplication rows, in insertion order
  applications,  \* Application rows: [company_name, created_by]
  now,           \* timezone.now()
  pc,            \* position of the running command
  cur,           \* email_account of the running sync_emails_for_account
  caller,        \* who called sync_emails_for_account: "direct" or "driver"
  emails,        \* the batch returned by fetch_recent_emails (message ids)
  idx,           \* position of the for loop in the batch
  stats,         \* the stats dict of the run
  ret,           \* outcome of the last sync_emails_for_account call
  events,        \* calls the run has made to the OAuth service and the fetch adapter
  acct0,         \* the account as it was when the run began
  det0,          \* the detected rows as they were when the run began
  last,          \* what the loop body did with the last message
  queue,         \* active_accounts not yet iterated by sync_all_active_accounts
  summary,       \* the summary dict of sync_all_active_accounts
  driverLog,     \* the per-account calls sync_all_active_accounts has made
  calls,         \* number of commands started
  rejSkipped,    \* (account, message id) of the rejections skipped for want of an application
  p_msg, p_ai, p_pattern, p_result, p_called, p_done,   \* one process_email call
  a_client,      \* AIEmailAnalyzer.client is set (an API key is configured)
  a_cache,       \* django cache: key -> entry
  a_clock,       \* the time the cache sees, in half days
  a_calls,       \* number of analyze_email calls made
  a_succ,        \* per triple, when an upstream call last succeeded and with what
  a_last,        \* the last analyze_email call and its outcome
  f_list,        \* what messages().list().execute() does in a fetch_recent_emails call
  f_gets,        \* what messages().get().execute() and the parse do, per listed message
  f_ret,         \* the outcome of the fetch_recent_emails call
  f_done,        \* the call has been made
  st_stages,     \* the Stage rows (their ids)
  st_apps,       \* Application.stage of every application (NoStage for NULL)
  st_resp,       \* the last API request on stages and applications, and its response
  v_db,          \* the rows behind a caching viewset: per pk, its version (NeverRow, Deleted)
  v_cache,       \* the cache: per key, <<>> or <<the stored response data>>
  v_pattern,     \* the cache backend has delete_pattern
  v_last,        \* the user's last request on the viewset and its response
  r_pc,          \* concurrent analyze_email calls: where each caller is
  r_resp,        \* what the upstream answered each caller (NoResponse before)
  r_up,          \* the number of upstream calls made
  c_pc,          \* concurrent sync runs of one account: where each run is
  c_batch,       \* the message ids each run fetched
  c_idx,         \* each run's position in its batch
  c_seen,        \* the number of rows in the table when the run made its pending check
  c_table        \* the detected rows, each with the run that inserted it and what it saw

syncVars == <<accounts, detected, applications, now, pc, cur, caller, emails, idx,
              stats, ret, events, acct0, det0, last, queue, summary, driverLog, calls,
              rejSkipped>>
anVars == <<a_client, a_cache, a_clock, a_calls, a_succ, a_last>>
fetchVars == <<f_list, f_gets, f_ret, f_done>>
stageVars == <<st_stages, st_apps, st_resp>>
viewVars == <<v_db, v_cache, v_pattern, v_last>>
raceVars == <<r_pc, r_resp, r_up>>
runsVars == <<c_pc, c_batch, c_idx, c_seen, c_table>>
extraVars == <<fetchVars, stageVars, viewVars, raceVars, runsVars>>
exceptFetch == <<stageVars, viewVars, raceVars, runsVars>>
exceptStage == <<fetchVars, viewVars, raceVars, runsVars>>
exceptView == <<fetchVars, stageVars, raceVars, runsVars>>
exceptRace == <<fetchVars, stageVars, viewVars, runsVars>>
exceptRuns == <<fetchVars, stageVars, viewVars, raceVars>>
procVars == <<p_msg, p_ai, p_pattern, p_result, p_called, p_done, a_client, a_cache, a_clock,
              a_calls, a_succ, a_last, extraVars>>
pVars == <<p_msg, p_ai, p_pattern, p_result, p_called, p_done, extraVars>>
baseVars == <<syncVars, p_msg, p_ai, p_pattern, p_result, p_called, p_done, anVars>>
vars == <<accounts, detected, applications, now, pc, cur, caller, emails, idx,
          stats, ret, events, acct0, det0, last, queue, summary, driverLog, calls,
          rejSkipped, p_msg, p_ai, p_pattern, p_result, p_called, p_done,
          a_client, a_cache, a_clock, a_calls, a_succ, a_last,
          f_list, f_gets, f_ret, f_done, st_stages, st_apps, st_resp,
          v_db, v_cache, v_pattern, v_last, r_pc, r_resp, r_up,
          c_pc, c_batch, c_idx, c_seen, c_table>>

Accounts == {1, 2}
(* EmailAccount.user is one-to-one: account a belongs to user a *)
UserOf(a) == a
EmailOf(a) == IF a = 1 THEN "one@gmail.com" ELSE "two@gmail.com"

NoTime == <<>>
At(t) == <<t>>

(* The mailbox: message id -> what the parser finds in the message *)
Mail ==
  (1 :> [app |-> TRUE, rej |-> FALSE, ass |-> FALSE, content_company |-> "Acme", sender_label |-> "indeed"])
  @@ (2 :> [app |-> FALSE, rej |-> TRUE, ass |-> FALSE, content_company |-> NoneV, sender_label |-> "acme"])
  @@ (3 :> [app |-> FALSE, rej |-> FALSE, ass |-> FALSE, content_company |-> NoneV, sender_label |-> "gmail"])
MsgIds == DOMAIN Mail

Batches == UNION {[1..n -> MsgIds] : n \in 0..MaxBatch}

AIRaise == [kind |-> "raise", type |-> NoneV, confidence |-> 0, company_name |-> NoneV, error |-> FALSE]
AIError == [kind |-> "result", type |-> "unknown", confidence |-> 0, company_name |-> NoneV, error |-> TRUE]
AIResult(t, c, n) == [kind |-> "result", type |-> t, confidence |-> c, company_name |-> n, error |-> FALSE]

(* The analyzer answers the sync runs meet *)
AISync == {AIRaise, AIError,
           AIResult("application_confirmation", 90, "Globex"),
           AIResult("application_confirmation", 90, NoneV),
           AIResult("rejection", 90, "ACME"),
           AIResult("interview", 50, "Acme"),
           AIResult("interview", 90, "Unknown"),
           AIResult("interview", 90, NonStr),
           AIResult("other", 90, "Acme")}

Faults == {"none", "dedup", "classify", "save"}

ZeroStats == [processed |-> 0, created |-> 0, skipped |-> 0, errors |-> 0]
NoRet == [kind |-> "none", stats |-> ZeroStats, error |-> ""]
NoLast == [id |-> 0, fault |-> "none", dup |-> FALSE, proc_called |-> FALSE,
           type |-> NoneV, confidence |-> 0, company_name |-> NoneV,
           outcome |-> "none"]
NoAccount == [is_active |-> FALSE, access_token |-> "", refresh_token |-> "",
              token_expires_at |-> NoTime, last_sync_at |-> NoTime]
ZeroSummary == [accounts_processed |-> 0, accounts_succeeded |-> 0, accounts_failed |-> 0,
                total_emails_processed |-> 0, total_detected_created |-> 0, errors |-> <<>>]

(* ---------------- EmailSyncService.sync_emails_for_account ---------------- *)
NeedsRefresh_strict(acct, t) ==
  /\ acct.token_expires_at # NoTime
  /\ acct.token_expires_at[1] < t
  /\ acct.refresh_token # ""

NeedsRefresh(acct, t) ==
  /\ acct.token_expires_at # NoTime
  /\ acct.token_expires_at[1] <= t
  /\ acct.refresh_token # ""

DedupExists_pendingOnly(rows, a, id) ==
  \E i \in 1..Len(rows) : /\ rows[i].email_account = a /\ rows[i].email_message_id = id
                          /\ rows[i].status = "pending"

DedupExists(rows, a, id) ==
  \E i \in 1..Len(rows) : rows[i].email_account = a /\ rows[i].email_message_id = id

ExistingApp_anyUser(apps, company_name, user) ==
  \E ap \in apps : Lower(ap.company_name) = Lower(company_name)

ExistingApp(apps, company_name, user) ==
  \E ap \in apps : Lower(ap.company_name) = Lower(company_name) /\ ap.created_by = user

Gate_caseSensitive(result, apps, user) ==
  LET email_type == NormalizeAIType(result.type)
      company_name == result.company_name
  IN IF ~(email_type \in JOB_RELATED_TYPES /\ result.confidence >= MIN_CONFIDENCE_THRESHOLD)
       THEN "skipped"
     ELSE IF ~Truthy(company_name) THEN "skipped"
     ELSE IF company_name = NonStr THEN "error"
     ELSE IF \/ Strip(company_name) = ""
             \/ company_name \in invalid_names
             \/ StrLen(Strip(company_name)) < 2
       THEN "skipped"
     ELSE IF email_type = "rejection" /\ ~ExistingApp(apps, company_name, user)
       THEN "skipped"
     ELSE "create"

(* The gates between process_email and the save: "create", "skipped", or   *)
(* "error" when evaluating them raises (str methods on a non-string).      *)
Gate(result, apps, user) ==
  LET email_type == NormalizeAIType(result.type)
      company_name == result.company_name
  IN IF ~(email_type \in JOB_RELATED_TYPES /\ result.confidence >= MIN_CONFIDENCE_THRESHOLD)
       THEN "skipped"
     ELSE IF ~Truthy(company_name) THEN "skipped"
     ELSE IF company_name = NonStr THEN "error"
     ELSE IF \/ Strip(company_name) = ""
             \/ Lower(company_name) \in invalid_names
             \/ StrLen(Strip(company_name)) < 2
       THEN "skipped"
     ELSE IF email_type = "rejection" /\ ~ExistingApp(apps, company_name, user)
       THEN "skipped"
     ELSE "create"

(* the date header of each message: a date, text that is no date, none *)
MailDate == (1 :> "Thu, 04 Jan 2024 10:00:00 +0000") @@ (2 :> "soon") @@ (3 :> NoneV)

(* date_parser.parse: the instant (before every sync of the model), or     *)
(* NoTime for the ValueError                                               *)
ParseDate(d) == IF d = "Thu, 04 Jan 2024 10:00:00 +0000" THEN At(-1) ELSE NoTime

(* the detected_at handed to AutoDetectedApplication(...) *)
detected_at_given(date, t) ==
  IF Truthy(date) /\ ParseDate(date) # NoTime THEN ParseDate(date)[1] ELSE t

(* DateTimeField(auto_now_add=True).pre_save on insert: the field is set   *)
(* to the current time whatever value the instance carries                 *)
pre_save_auto_now_add(value, t) == t

NewDetected(a, id, result, t) ==
  [email_account |-> a, email_message_id |-> id, company_name |-> result.company_name,
   confidence_score |-> result.confidence, status |-> "pending",
   detected_at |-> pre_save_auto_now_add(detected_at_given(MailDate[id], t), t)]

Raise(msg) == [kind |-> "raise", stats |-> ZeroStats, error |-> msg]

BeginRun_noActiveCheck(a) ==
  /\ cur' = a
  /\ acct0' = accounts[a]
  /\ det0' = detected
  /\ events' = <<>>
  /\ emails' = <<>>
  /\ idx' = 1
  /\ stats' = ZeroStats
  /\ last' = NoLast
  /\ ret' = NoRet
  /\ pc' = IF NeedsRefresh(accounts[a], now) THEN "refresh" ELSE "services"
  /\ UNCHANGED <<accounts, detected, applications, now>>

BeginRun(a) ==
  /\ cur' = a
  /\ acct0' = accounts[a]
  /\ det0' = detected
  /\ events' = <<>>
  /\ emails' = <<>>
  /\ idx' = 1
  /\ stats' = ZeroStats
  /\ last' = NoLast
  /\ IF ~accounts[a].is_active
       THEN pc' = "returned" /\ ret' = [kind |-> "return", stats |-> ZeroStats, error |-> ""]
       ELSE /\ ret' = NoRet
            /\ pc' = IF NeedsRefresh(accounts[a], now) THEN "refresh" ELSE "services"
  /\ UNCHANGED <<accounts, detected, applications, now>>

(* A command calls sync_emails_for_account directly *)
SyncCall(a) ==
  /\ pc = "idle" /\ calls < MaxCalls
  /\ calls' = calls + 1
  /\ caller' = "direct"
  /\ BeginRun(a)
  /\ UNCHANGED <<queue, summary, driverLog, rejSkipped, procVars>>

RefreshFail_swallowed ==
  /\ pc = "refresh"
  /\ events' = events \o <<"refresh_attempt", "refresh_failed">>
  /\ pc' = "services"
  /\ UNCHANGED <<accounts, detected, applications, now, cur, caller, emails, idx, stats, ret,
                 acct0, det0, last, queue, summary, driverLog, calls, rejSkipped, procVars>>

RefreshFail ==
  /\ pc = "refresh"
  /\ events' = events \o <<"refresh_attempt", "refresh_failed">>
  /\ ret' = Raise("Failed to refresh access token")
  /\ pc' = "returned"
  /\ UNCHANGED <<accounts, detected, applications, now, cur, caller, emails, idx, stats,
                 acct0, det0, last, queue, summary, driverLog, calls, rejSkipped, procVars>>

RefreshOk_rotatesRefreshToken ==
  /\ pc = "refresh"
  /\ \E expires_at \in {"none", "iso", "bad"} :
       accounts' = [accounts EXCEPT ![cur] =
          [@ EXCEPT !.access_token = "at_new",
                    !.refresh_token = "rt_new",
                    !.token_expires_at = CASE expires_at = "none" -> @
                                           [] expires_at = "iso" -> At(now + 2)
                                           [] OTHER -> At(now + 1)]]
  /\ events' = events \o <<"refresh_attempt", "refresh_done">>
  /\ pc' = "services"
  /\ UNCHANGED <<detected, applications, now, cur, caller, emails, idx, stats, ret,
                 acct0, det0, last, queue, summary, driverLog, calls, rejSkipped, procVars>>

(* token_data.expires_at: "none", "iso" (a parseable date) or "bad" *)
RefreshOk ==
  /\ pc = "refresh"
  /\ \E expires_at \in {"none", "iso", "bad"} :
       accounts' = [accounts EXCEPT ![cur] =
          [@ EXCEPT !.access_token = "at_new",
                    !.token_expires_at = CASE expires_at = "none" -> @
                                           [] expires_at = "iso" -> At(now + 2)
                                           [] OTHER -> At(now + 1)]]
  /\ events' = events \o <<"refresh_attempt", "refresh_done">>
  /\ pc' = "services"
  /\ UNCHANGED <<detected, applications, now, cur, caller, emails, idx, stats, ret,
                 acct0, det0, last, queue, summary, driverLog, calls, rejSkipped, procVars>>

(* GmailService(email_account): _build_service refuses an empty access token *)
InitServices ==
  /\ pc = "services"
  /\ IF accounts[cur].access_token = ""
       THEN pc' = "returned" /\ ret' = Raise("Access token is missing")
       ELSE pc' = "fetch" /\ ret' = ret
  /\ UNCHANGED <<accounts, detected, applications, now, cur, caller, emails, idx, stats,
                 events, acct0, det0, last, queue, summary, driverLog, calls, rejSkipped, procVars>>

FetchFail ==
  /\ pc = "fetch"
  /\ events' = events \o <<"fetch", "fetch_failed">>
  /\ ret' = Raise("HttpError")
  /\ pc' = "returned"
  /\ UNCHANGED <<accounts, detected, applications, now, cur, caller, emails, idx, stats,
                 acct0, det0, last, queue, summary, driverLog, calls, rejSkipped, procVars>>

FetchOkFrom(batches) ==
  /\ pc = "fetch"
  /\ events' = events \o <<"fetch", "fetch_done">>
  /\ \E batch \in batches : emails' = batch
  /\ idx' = 1
  /\ pc' = "loop"
  /\ UNCHANGED <<accounts, detected, applications, now, cur, caller, stats, ret,
                 acct0, det0, last, queue, summary, driverLog, calls, rejSkipped, procVars>>

FetchOk == FetchOkFrom(Batches)

MessageOutcome_swallow(fault, dup, gate) ==
  IF fault = "dedup" THEN "error"
  ELSE IF dup THEN "skipped"
  ELSE IF fault = "classify" THEN "skipped"
  ELSE IF gate = "create" THEN (IF fault = "save" THEN "error" ELSE "created")
  ELSE gate

MessageOutcome(fault, dup, gate) ==
  IF fault = "dedup" THEN "error"
  ELSE IF dup THEN "skipped"
  ELSE IF fault = "classify" THEN "error"
  ELSE IF gate = "create" THEN (IF fault = "save" THEN "error" ELSE "created")
  ELSE gate

CountOutcome_processedAfterGates(st, outcome) ==
  [processed |-> st.processed + (IF outcome = "skipped" THEN 0 ELSE 1),
   created |-> st.created + (IF outcome = "created" THEN 1 ELSE 0),
   skipped |-> st.skipped + (IF outcome = "skipped" THEN 1 ELSE 0),
   errors |-> st.errors + (IF outcome = "error" THEN 1 ELSE 0)]

(* stats['processed'] += 1 at the head of the iteration, then one of       *)
(* created, skipped, errors where the iteration ends                       *)
CountOutcome(st, outcome) ==
  [processed |-> st.processed + 1,
   created |-> st.created + (IF outcome = "created" THEN 1 ELSE 0),
   skipped |-> st.skipped + (IF outcome = "skipped" THEN 1 ELSE 0),
   errors |-> st.errors + (IF outcome = "error" THEN 1 ELSE 0)]

(* One iteration of the for loop *)
ProcessMessageWith(answers, faults) ==
  /\ pc = "loop" /\ idx <= Len(emails)
  /\ \E ai \in answers, fault \in faults :
       LET id == emails[idx]
           dup == DedupExists(detected, cur, id)
           result == process_email(classify_email(Mail[id]), ai)
           gate == Gate(result, applications, UserOf(cur))
           outcome == MessageOutcome(fault, dup, gate)
       IN /\ detected' = IF outcome = "created"
                           THEN Append(detected, NewDetected(cur, id, result, now))
                           ELSE detected
          /\ stats' = CountOutcome(stats, outcome)
          /\ last' = IF fault = "dedup" \/ dup
                        THEN [NoLast EXCEPT !.id = id, !.dup = (fault # "dedup" /\ dup),
                                            !.fault = IF fault = "dedup" THEN "dedup" ELSE "none",
                                            !.outcome = outcome]
                      ELSE IF fault = "classify"
                        THEN [NoLast EXCEPT !.id = id, !.fault = fault, !.proc_called = TRUE,
                                            !.outcome = outcome]
                      ELSE [id |-> id, dup |-> dup, proc_called |-> TRUE,
                            fault |-> IF fault = "save" /\ gate = "create" THEN "save"
                                      ELSE IF gate = "error" THEN "gate" ELSE "none",
                            type |-> result.type, confidence |-> result.confidence,
                            company_name |-> result.company_name, outcome |-> outcome]
          /\ rejSkipped' = IF /\ outcome = "skipped" /\ ~dup /\ fault \notin {"dedup", "classify"}
                               /\ result.type = "rejection"
                               /\ Gate([result EXCEPT !.type = "interview"], applications,
                                       UserOf(cur)) = "create"
                            THEN rejSkipped \cup {<<cur, id>>}
                            ELSE rejSkipped
  /\ idx' = idx + 1
  /\ UNCHANGED <<accounts, applications, now, pc, cur, caller, emails, ret, events,
                 acct0, det0, queue, summary, driverLog, calls, procVars>>

ProcessMessage == ProcessMessageWith(AISync, Faults)

FinishRun_onlyIfClean ==
  /\ pc = "loop" /\ idx > Len(emails)
  /\ accounts' = IF stats.errors = 0
                   THEN [accounts EXCEPT ![cur].last_sync_at = At(now)]
                   ELSE accounts
  /\ ret' = [kind |-> "return", stats |-> stats, error |-> ""]
  /\ pc' = "returned"
  /\ UNCHANGED <<detected, applications, now, cur, caller, emails, idx, stats, events,
                 acct0, det0, last, queue, summary, driverLog, calls, rejSkipped, procVars>>

FinishRun ==
  /\ pc = "loop" /\ idx > Len(emails)
  /\ accounts' = [accounts EXCEPT ![cur].last_sync_at = At(now)]
  /\ ret' = [kind |-> "return", stats |-> stats, error |-> ""]
  /\ pc' = "returned"
  /\ UNCHANGED <<detected, applications, now, cur, caller, emails, idx, stats, events,
                 acct0, det0, last, queue, summary, driverLog, calls, rejSkipped, procVars>>

(* The direct caller receives the result or the exception *)
ForgetRun ==
  /\ cur' = 1
  /\ emails' = <<>>
  /\ idx' = 1
  /\ stats' = ZeroStats
  /\ ret' = NoRet
  /\ events' = <<>>
  /\ acct0' = NoAccount
  /\ det0' = <<>>
  /\ last' = NoLast

SyncReturn ==
  /\ pc = "returned" /\ caller = "direct"
  /\ pc' = "idle"
  /\ ForgetRun
  /\ UNCHANGED <<accounts, detected, applications, now, caller, queue, summary, driverLog,
                 calls, rejSkipped, procVars>>

(* ---------------- EmailSyncService.sync_all_active_accounts ---------------- *)
RECURSIVE ActiveSeq(_, _)
(* EmailAccount.objects.filter(is_active=True), by id from a upward *)
ActiveSeq(accts, a) ==
  IF a \notin Accounts THEN <<>>
  ELSE (IF accts[a].is_active THEN <<a>> ELSE <<>>) \o ActiveSeq(accts, a + 1)

DriverStart ==
  /\ pc = "idle" /\ calls < MaxCalls
  /\ calls' = calls + 1
  /\ caller' = "driver"
  /\ queue' = ActiveSeq(accounts, 1)
  /\ summary' = ZeroSummary
  /\ driverLog' = <<>>
  /\ pc' = "driver"
  /\ UNCHANGED <<accounts, detected, applications, now, cur, emails, idx, stats, ret,
                 events, acct0, det0, last, rejSkipped, procVars>>

(* for account in active_accounts: accounts_processed += 1, then the call *)
DriverCall ==
  /\ pc = "driver" /\ queue # <<>>
  /\ summary' = [summary EXCEPT !.accounts_processed = @ + 1]
  /\ BeginRun(Head(queue))
  /\ UNCHANGED <<caller, queue, driverLog, calls, rejSkipped, procVars>>

Collect_countsEarly(sm, a, r) ==
  IF r.kind = "return"
  THEN [sm EXCEPT !.accounts_succeeded = @ + 1,
                  !.total_emails_processed = @ + r.stats.processed,
                  !.total_detected_created = @ + r.stats.created]
  ELSE [sm EXCEPT !.accounts_succeeded = @ + 1,
                  !.accounts_failed = @ + 1,
                  !.errors = Append(@, [account_id |-> a, email |-> EmailOf(a), error |-> r.error])]

Collect(sm, a, r) ==
  IF r.kind = "return"
  THEN [sm EXCEPT !.accounts_succeeded = @ + 1,
                  !.total_emails_processed = @ + r.stats.processed,
                  !.total_detected_created = @ + r.stats.created]
  ELSE [sm EXCEPT !.accounts_failed = @ + 1,
                  !.errors = Append(@, [account_id |-> a, email |-> EmailOf(a), error |-> r.error])]

(* the call returned or raised inside the driver's try *)
DriverCollect ==
  /\ pc = "returned" /\ caller = "driver"
  /\ summary' = Collect(summary, cur, ret)
  /\ driverLog' = Append(driverLog, [account |-> cur, kind |-> ret.kind,
                                     processed |-> ret.stats.processed,
                                     created |-> ret.stats.created])
  /\ queue' = Tail(queue)
  /\ pc' = "driver"
  /\ ForgetRun
  /\ UNCHANGED <<accounts, detected, applications, now, caller, calls, rejSkipped, procVars>>

DriverReturn ==
  /\ pc = "driver" /\ queue = <<>>
  /\ pc' = "idle"
  /\ caller' = "direct"
  /\ summary' = ZeroSummary
  /\ driverLog' = <<>>
  /\ UNCHANGED <<accounts, detected, applications, now, cur, emails, idx, stats,
                 ret, events, acct0, det0, last, queue, calls, rejSkipped, procVars>>

(* ---------------- the environment ---------------- *)
Tick ==
  /\ pc = "idle"
  /\ now < MaxTime
  /\ now' = now + 1
  /\ UNCHANGED <<accounts, detected, applications, pc, cur, caller, emails, idx, stats,
                 ret, events, acct0, det0, last, queue, summary, driverLog, calls, rejSkipped, procVars>>

(* ApplicationViewSet.perform_create: the user adds an application *)
CreateApplication ==
  /\ pc = "idle"
  /\ \E u \in {1} :
       /\ [company_name |-> "acme", created_by |-> u] \notin applications
       /\ applications' = applications \cup {[company_name |-> "acme", created_by |-> u]}
  /\ UNCHANGED <<accounts, detected, now, pc, cur, caller, emails, idx, stats,
                 ret, events, acct0, det0, last, queue, summary, driverLog, calls, rejSkipped, procVars>>

(* the review workflow accepts, rejects or merges a pending detected row *)
ReviewStatusChange ==
  /\ pc = "idle"
  /\ \E i \in 1..Len(detected), s \in {"accepted"} :
       /\ \A j \in 1..Len(detected) : detected[j].status = "pending"
       /\ detected' = [detected EXCEPT ![i].status = s]
  /\ UNCHANGED <<accounts, applications, now, pc, cur, caller, emails, idx, stats,
                 ret, events, acct0, det0, last, queue, summary, driverLog, calls, rejSkipped, procVars>>

(* ---------------- AIEmailAnalyzer.analyze_email ---------------- *)
(* The (subject, body, sender) triples analyze_email is called with *)
Triples == {<<"Offer", "", "hr@acme.io">>, <<"", "Offer", "hr@acme.io">>,
            <<"Offer", "Hi", "hr@acme.io">>}

(* f'{subject}{body}{sender}'; hash() is taken to be injective on it *)
CacheKey(t) == t[1] \o t[2] \o t[3]
CacheKeys == {CacheKey(t) : t \in Triples}

(* json.loads gave {}: a mapping that is false under bool() *)
EmptyMapping == [kind |-> "result", type |-> NoneV, confidence |-> 0, company_name |-> NoneV,
                 error |-> FALSE]
MappingTruthy(v) == v # EmptyMapping

(* What the upstream call does: "fail" is an exception of the client,       *)
(* "badjson" a reply json.loads rejects, "ok" a reply that parses to value *)
Upstream ==
  {[kind |-> "fail", value |-> EmptyMapping], [kind |-> "badjson", value |-> EmptyMapping]}
  \cup [kind : {"ok"}, value : {AIResult("interview", 90, "Acme"),
                                AIResult("rejection", 90, "ACME"), EmptyMapping}]

NoEntry == [present |-> FALSE, value |-> EmptyMapping, expires |-> 0, by |-> <<"", "", "">>]

(* cache.get: the stored value as a one-element sequence, <<>> on a miss *)
CacheGet(cache, key, t) ==
  IF cache[key].present /\ t < cache[key].expires THEN <<cache[key].value>> ELSE <<>>

Outcome(kind, result, msg, upstream, store) ==
  [kind |-> kind, result |-> result, error_msg |-> msg, upstream |-> upstream, store |-> store]

analyze_email_transportPropagates(client, cached, response) ==
  IF cached # <<>> /\ MappingTruthy(cached[1])
    THEN Outcome("return", cached[1], "", FALSE, FALSE)
  ELSE IF ~client
    THEN Outcome("return", AIError, "OpenAI API key not configured", FALSE, FALSE)
  ELSE IF response.kind = "fail"
    THEN Outcome("raise", AIError, "upstream error", TRUE, FALSE)
  ELSE IF response.kind = "badjson"
    THEN Outcome("return", AIError, "Invalid JSON response", TRUE, FALSE)
  ELSE Outcome("return", response.value, "", TRUE, TRUE)

analyze_email_cachesErrors(client, cached, response) ==
  IF cached # <<>> /\ MappingTruthy(cached[1])
    THEN Outcome("return", cached[1], "", FALSE, FALSE)
  ELSE IF ~client
    THEN Outcome("return", AIError, "OpenAI API key not configured", FALSE, FALSE)
  ELSE IF response.kind = "fail"
    THEN Outcome("return", AIError, "upstream error", TRUE, FALSE)
  ELSE IF response.kind = "badjson"
    THEN Outcome("return", AIError, "Invalid JSON response", TRUE, TRUE)
  ELSE Outcome("return", response.value, "", TRUE, TRUE)

(* analyze_email for a cache lookup result and an upstream behaviour: what  *)
(* it returns, whether the upstream call was made, whether it stored        *)
analyze_email(client, cached, response) ==
  IF cached # <<>> /\ MappingTruthy(cached[1])
    THEN Outcome("return", cached[1], "", FALSE, FALSE)
  ELSE IF ~client
    THEN Outcome("return", AIError, "OpenAI API key not configured", FALSE, FALSE)
  ELSE IF response.kind = "fail"
    THEN Outcome("return", AIError, "upstream error", TRUE, FALSE)
  ELSE IF response.kind = "badjson"
    THEN Outcome("return", AIError, "Invalid JSON response", TRUE, FALSE)
  ELSE Outcome("return", response.value, "", TRUE, TRUE)

NoLastAnalysis ==
  [called |-> FALSE, triple |-> <<"", "", "">>, response |-> "none", kind |-> "return",
   result |-> AIError, error_msg |-> "", upstream |-> FALSE, hit |-> FALSE,
   stored_by |-> <<"", "", "">>, prior |-> <<>>, after_failure |-> FALSE]

(* one call analyze_email(subject, body, sender) *)
AnalyzeEmail ==
  /\ a_calls < MaxAnalyses
  /\ a_calls' = a_calls + 1
  /\ \E t \in Triples, response \in Upstream :
       LET key == CacheKey(t)
           cached == CacheGet(a_cache, key, a_clock)
           out == analyze_email(a_client, cached, response)
       IN /\ a_cache' = IF out.store
                          THEN [a_cache EXCEPT ![key] = [present |-> TRUE, value |-> out.result,
                                                         expires |-> a_clock + CACHE_TTL,
                                                         by |-> t]]
                          ELSE a_cache
          /\ a_succ' = IF out.store THEN [a_succ EXCEPT ![t] = <<a_clock, out.result>>]
                       ELSE a_succ
          /\ a_last' = [called |-> TRUE, triple |-> t,
                        response |-> IF out.upstream THEN response.kind ELSE "none",
                        kind |-> out.kind, result |-> out.result,
                        error_msg |-> out.error_msg, upstream |-> out.upstream,
                        hit |-> (~out.upstream /\ out.error_msg = ""),
                        stored_by |-> IF ~out.upstream /\ out.error_msg = ""
                                      THEN a_cache[key].by ELSE <<"", "", "">>,
                        prior |-> IF a_succ[t] # <<>> /\ a_clock < a_succ[t][1] + CACHE_TTL
                                  THEN <<a_succ[t][2]>> ELSE <<>>,
                        after_failure |-> (/\ a_last.called /\ a_last.triple = t
                                           /\ a_last.error_msg # "")]
  /\ UNCHANGED <<a_client, a_clock, syncVars, pVars>>

AnalyzerTick ==
  /\ a_clock < MaxClock
  /\ a_clock' = a_clock + 1
  /\ UNCHANGED <<a_client, a_cache, a_calls, a_succ, a_last, syncVars, pVars>>

InitAnalyzerIdle ==
  /\ a_client = FALSE
  /\ a_cache = [k \in CacheKeys |-> NoEntry]
  /\ a_clock = 0
  /\ a_calls = 0
  /\ a_succ = [t \in Triples |-> <<>>]
  /\ a_last = NoLastAnalysis

(* ---------------- GmailService.fetch_recent_emails ---------------- *)
(* The list call: "ok" (it lists the messages of f_gets), "no_messages"    *)
(* (no 'messages' key), an HttpError with status 401 or 500, or another    *)
(* exception of the transport.                                             *)
ListOutcomes == {"ok", "no_messages", "http401", "http500", "other_exc"}
(* A per-message get: "ok", "unparseable" (_parse_email_message returns    *)
(* None), an HttpError with status 401 or 500, or another exception.       *)
GetOutcomes == {"ok", "unparseable", "http401", "http500", "other_exc"}
HttpErrors == {"http401", "http500"}

RECURSIVE FetchLoop(_, _, _)
(* for msg in messages['messages']: message i of the list is fetched and   *)
(* parsed; only HttpError is caught per message, and a message whose parse *)
(* gives None is left out                                                  *)
FetchLoop(gets, i, email_list) ==
  IF i > Len(gets) THEN [kind |-> "return", emails |-> email_list, error |-> "none"]
  ELSE IF gets[i] = "ok" THEN FetchLoop(gets, i + 1, Append(email_list, i))
  ELSE IF gets[i] = "unparseable" \/ gets[i] \in HttpErrors
    THEN FetchLoop(gets, i + 1, email_list)
  ELSE [kind |-> "raise", emails |-> <<>>, error |-> gets[i]]

fetch_recent_emails(list_outcome, gets) ==
  IF list_outcome = "no_messages" THEN [kind |-> "return", emails |-> <<>>, error |-> "none"]
  ELSE IF list_outcome = "ok" THEN FetchLoop(gets, 1, <<>>)
  ELSE [kind |-> "raise", emails |-> <<>>, error |-> list_outcome]

NoFetch == [kind |-> "none", emails |-> <<>>, error |-> "none"]

FetchRecentEmails ==
  /\ ~f_done
  /\ f_done' = TRUE
  /\ f_ret' = fetch_recent_emails(f_list, f_gets)
  /\ UNCHANGED <<f_list, f_gets, baseVars, exceptFetch>>

InitFetchIdle ==
  /\ f_list = "no_messages"
  /\ f_gets = <<>>
  /\ f_ret = NoFetch
  /\ f_done = FALSE

(* ---------------- StageViewSet.destroy ---------------- *)
Stages == {1, 2}
Apps == {1, 2, 3}
NoStage == 0

ApplicationsIn(apps, s) == {a \in Apps : apps[a] = s}

(* models.SET_NULL on Application.stage *)
SetNull(apps, s) == [a \in Apps |-> IF apps[a] = s THEN NoStage ELSE apps[a]]

destroy_unguarded(stages, apps, s) ==
  IF s \notin stages
    THEN [status |-> 404, error_count |-> 0, stages |-> stages, apps |-> apps]
  ELSE [status |-> 204, error_count |-> 0, stages |-> stages \ {s}, apps |-> SetNull(apps, s)]

(* the response and the tables after DELETE /api/stages/<s>/ *)
destroy(stages, apps, s) ==
  IF s \notin stages
    THEN [status |-> 404, error_count |-> 0, stages |-> stages, apps |-> apps]
  ELSE LET application_count == Cardinality(ApplicationsIn(apps, s))
       IN IF application_count > 0
            THEN [status |-> 400, error_count |-> application_count,
                  stages |-> stages, apps |-> apps]
          ELSE [status |-> 204, error_count |-> 0,
                stages |-> stages \ {s}, apps |-> SetNull(apps, s)]

NoStageRequest ==
  [op |-> "none", stage |-> NoStage, status |-> 0, error_count |-> 0,
   stages0 |-> {}, apps0 |-> [a \in Apps |-> NoStage], refused |-> {}]

StageDestroy(s) ==
  LET out == destroy(st_stages, st_apps, s)
  IN /\ st_stages' = out.stages
     /\ st_apps' = out.apps
     /\ st_resp' = [op |-> "destroy", stage |-> s, status |-> out.status,
                    error_count |-> out.error_count, stages0 |-> st_stages, apps0 |-> st_apps,
                    refused |-> IF out.status = 400 THEN st_resp.refused \cup {s}
                                ELSE st_resp.refused]
     /\ UNCHANGED <<baseVars, exceptStage>>

(* PATCH /api/applications/<a>/ with stage = s: the serializer accepts an  *)
(* existing stage or null                                                  *)
MoveApplication(a, s) ==
  /\ s \in st_stages \cup {NoStage}
  /\ st_apps[a] # s
  /\ st_apps' = [st_apps EXCEPT ![a] = s]
  /\ st_resp' = [op |-> "move", stage |-> s, status |-> 200, error_count |-> 0,
                 stages0 |-> st_stages, apps0 |-> st_apps, refused |-> st_resp.refused]
  /\ UNCHANGED <<st_stages, baseVars, exceptStage>>

InitStageIdle ==
  /\ st_stages = Stages
  /\ st_apps = [a \in Apps |-> NoStage]
  /\ st_resp = NoStageRequest

(* ---------------- CacheResponseMixin ---------------- *)
MaxVersion == 2
Pks == {"1", "2"}
NeverRow == 0
Deleted == -1
(* request.query_params of a list request: none, or some *)
QueryParams == {"", "page=1"}

(* get_cache_key: the list key carries a digest of the query parameters    *)
(* when there are any, the detail key that of the pk                       *)
ListKey(query_params) == <<"list", query_params>>
DetailKey(pk) == <<"detail", pk>>
ViewKeys == {ListKey(q) : q \in QueryParams} \cup {DetailKey(pk) : pk \in Pks}

Live(db, pk) == db[pk] \notin {NeverRow, Deleted}
(* the serialized queryset, and one serialized object *)
ListData(db) == {<<pk, db[pk]>> : pk \in {k \in Pks : Live(db, k)}}
DetailData(db, pk) == {<<pk, db[pk]>>}

(* cache.delete_pattern(f'{list key}*') where the backend has it, else     *)
(* cache.delete of the list key built without query parameters             *)
clear_list_cache(cache, has_delete_pattern) ==
  [k \in ViewKeys |->
     IF k[1] = "list" /\ (has_delete_pattern \/ k = ListKey("")) THEN <<>> ELSE cache[k]]

clear_detail_cache(cache, pk) == [cache EXCEPT ![DetailKey(pk)] = <<>>]

NoViewRequest == [op |-> "none", status |-> 0, data |-> {}, arg |-> "", hit |-> FALSE,
                  writes |-> 0]

Respond(op, arg, status, data, hit) ==
  [op |-> op, status |-> status, data |-> data, arg |-> arg, hit |-> hit,
   writes |-> v_last.writes]

Written(op, arg, status) ==
  [op |-> op, status |-> status, data |-> {}, arg |-> arg, hit |-> FALSE,
   writes |-> IF v_last.writes < MaxVersion THEN v_last.writes + 1 ELSE v_last.writes]

ViewList(q) ==
  LET cache_key == ListKey(q)
      cached_response == v_cache[cache_key]
  IN /\ IF cached_response # <<>>
          THEN /\ v_last' = Respond("list", q, 200, cached_response[1], TRUE)
               /\ v_cache' = v_cache
          ELSE /\ v_last' = Respond("list", q, 200, ListData(v_db), FALSE)
               /\ v_cache' = [v_cache EXCEPT ![cache_key] = <<ListData(v_db)>>]
     /\ UNCHANGED <<v_db, v_pattern, baseVars, exceptView>>

ViewRetrieve(pk) ==
  LET cache_key == DetailKey(pk)
      cached_response == v_cache[cache_key]
  IN /\ IF cached_response # <<>>
          THEN /\ v_last' = Respond("retrieve", pk, 200, cached_response[1], TRUE)
               /\ v_cache' = v_cache
          ELSE IF Live(v_db, pk)
            THEN /\ v_last' = Respond("retrieve", pk, 200, DetailData(v_db, pk), FALSE)
                 /\ v_cache' = [v_cache EXCEPT ![cache_key] = <<DetailData(v_db, pk)>>]
          ELSE /\ v_last' = Respond("retrieve", pk, 404, {}, FALSE)
               /\ v_cache' = v_cache
     /\ UNCHANGED <<v_db, v_pattern, baseVars, exceptView>>

(* POST: the new row takes a pk never used before *)
ViewCreate(pk) ==
  /\ v_db[pk] = NeverRow
  /\ v_db' = [v_db EXCEPT ![pk] = 1]
  /\ v_cache' = clear_list_cache(v_cache, v_pattern)
  /\ v_last' = Written("create", pk, 201)
  /\ UNCHANGED <<v_pattern, baseVars, exceptView>>

(* PUT / PATCH: get_object raises 404 for a missing row before any cache is cleared *)
ViewUpdate(pk) ==
  /\ Live(v_db, pk)
  /\ v_db[pk] < MaxVersion
  /\ v_db' = [v_db EXCEPT ![pk] = @ + 1]
  /\ v_cache' = clear_detail_cache(clear_list_cache(v_cache, v_pattern), pk)
  /\ v_last' = Written("update", pk, 200)
  /\ UNCHANGED <<v_pattern, baseVars, exceptView>>

ViewDestroy(pk) ==
  /\ Live(v_db, pk)
  /\ v_db' = [v_db EXCEPT ![pk] = Deleted]
  /\ v_cache' = clear_detail_cache(clear_list_cache(v_cache, v_pattern), pk)
  /\ v_last' = Written("destroy", pk, 204)
  /\ UNCHANGED <<v_pattern, baseVars, exceptView>>

InitViewIdle ==
  /\ v_db = [pk \in Pks |-> NeverRow]
  /\ v_cache = [k \in ViewKeys |-> <<>>]
  /\ v_pattern = FALSE
  /\ v_last = NoViewRequest

(* ---------------- concurrent analyze_email calls for one content ---------------- *)
MaxCallers == 3
Callers == 1..MaxCallers
SameContent == <<"Offer", "Hi", "hr@acme.io">>
NoResponse == [kind |-> "none", value |-> EmptyMapping]

(* lines 48-59: the lookup, and the return of a hit or of the missing client *)
RaceLookup(c) ==
  /\ r_pc[c] = "start"
  /\ LET cached == CacheGet(a_cache, CacheKey(SameContent), a_clock)
         out == analyze_email(a_client, cached, NoResponse)
     IN r_pc' = [r_pc EXCEPT ![c] = IF out.upstream THEN "call" ELSE "returned"]
  /\ UNCHANGED <<r_resp, r_up, baseVars, exceptRace>>

RaceUpstream_retry(c) ==
  /\ r_pc[c] = "call"
  /\ r_up < MaxCallers + 1
  /\ r_up' = r_up + 1
  /\ \E response \in Upstream :
       /\ r_resp' = [r_resp EXCEPT ![c] = response]
       /\ r_pc' = [r_pc EXCEPT ![c] =
                     IF analyze_email(a_client, <<>>, response).store THEN "write" ELSE "call"]
  /\ UNCHANGED <<baseVars, exceptRace>>

(* lines 63-89: the one upstream call of a caller that missed, and the     *)
(* parse of its reply                                                      *)
RaceUpstream(c) ==
  /\ r_pc[c] = "call"
  /\ r_up' = r_up + 1
  /\ \E response \in Upstream :
       /\ r_resp' = [r_resp EXCEPT ![c] = response]
       /\ r_pc' = [r_pc EXCEPT ![c] =
                     IF analyze_email(a_client, <<>>, response).store THEN "write"
                     ELSE "returned"]
  /\ UNCHANGED <<baseVars, exceptRace>>

(* line 92: cache.set, then the return *)
RaceWrite(c) ==
  /\ r_pc[c] = "write"
  /\ a_cache' = [a_cache EXCEPT ![CacheKey(SameContent)] =
                   [present |-> TRUE, value |-> r_resp[c].value,
                    expires |-> a_clock + CACHE_TTL, by |-> SameContent]]
  /\ r_pc' = [r_pc EXCEPT ![c] = "returned"]
  /\ UNCHANGED <<r_resp, r_up, syncVars, p_msg, p_ai, p_pattern, p_result, p_called, p_done,
                 a_client, a_clock, a_calls, a_succ, a_last, exceptRace>>

(* ---------------- concurrent sync runs of one account ---------------- *)
Runs == {1, 2}
RacedAccount == 1
TableRows(table) == [i \in 1..Len(table) |-> table[i].row]
RunResult(id) == process_email(classify_email(Mail[id]), AIRaise)

RunCheck_noDedup(r) ==
  /\ c_pc[r] = "check" /\ c_idx[r] <= Len(c_batch[r])
  /\ LET id == c_batch[r][c_idx[r]]
         gate == Gate(RunResult(id), applications, UserOf(RacedAccount))
     IN IF gate # "create"
          THEN /\ c_idx' = [c_idx EXCEPT ![r] = @ + 1]
               /\ UNCHANGED <<c_pc, c_seen>>
        ELSE /\ c_pc' = [c_pc EXCEPT ![r] = "insert"]
             /\ c_seen' = [c_seen EXCEPT ![r] = Len(c_table)]
             /\ UNCHANGED c_idx
  /\ UNCHANGED <<c_batch, c_table, baseVars, exceptRuns>>

(* lines 96-188 for the run's next message: the pending check against the  *)
(* table as it is now, then the classification and the gates               *)
RunCheck(r) ==
  /\ c_pc[r] = "check" /\ c_idx[r] <= Len(c_batch[r])
  /\ LET id == c_batch[r][c_idx[r]]
         dup == DedupExists(TableRows(c_table), RacedAccount, id)
         gate == Gate(RunResult(id), applications, UserOf(RacedAccount))
     IN IF dup \/ gate # "create"
          THEN /\ c_idx' = [c_idx EXCEPT ![r] = @ + 1]
               /\ UNCHANGED <<c_pc, c_seen>>
        ELSE /\ c_pc' = [c_pc EXCEPT ![r] = "insert"]
             /\ c_seen' = [c_seen EXCEPT ![r] = Len(c_table)]
             /\ UNCHANGED c_idx
  /\ UNCHANGED <<c_batch, c_table, baseVars, exceptRuns>>

(* lines 207-222: the insert; no constraint of the table rejects it *)
RunInsert(r) ==
  /\ c_pc[r] = "insert"
  /\ LET id == c_batch[r][c_idx[r]]
     IN c_table' = Append(c_table, [row |-> NewDetected(RacedAccount, id, RunResult(id), now),
                                    run |-> r, seen |-> c_seen[r]])
  /\ c_pc' = [c_pc EXCEPT ![r] = "check"]
  /\ c_idx' = [c_idx EXCEPT ![r] = @ + 1]
  /\ UNCHANGED <<c_batch, c_seen, baseVars, exceptRuns>>

RunFinish(r) ==
  /\ c_pc[r] = "check" /\ c_idx[r] > Len(c_batch[r])
  /\ c_pc' = [c_pc EXCEPT ![r] = "returned"]
  /\ UNCHANGED <<c_batch, c_idx, c_seen, c_table, baseVars, exceptRuns>>

InitRaceIdle ==
  /\ r_pc = [c \in Callers |-> "returned"]
  /\ r_resp = [c \in Callers |-> NoResponse]
  /\ r_up = 0

InitRunsIdle ==
  /\ c_pc = <<>>
  /\ c_batch = <<>>
  /\ c_idx = <<>>
  /\ c_seen = <<>>
  /\ c_table = <<>>

InitExtraIdle ==
  /\ InitFetchIdle
  /\ InitStageIdle
  /\ InitViewIdle
  /\ InitRaceIdle
  /\ InitRunsIdle

(* ---------------- specification of the sync ---------------- *)
TokenStates ==
  {[access_token |-> "at_old", refresh_token |-> "rt", token_expires_at |-> At(1)],
   [access_token |-> "at_old", refresh_token |-> "", token_expires_at |-> At(0)],
   [access_token |-> "at_old", refresh_token |-> "rt", token_expires_at |-> NoTime],
   [access_token |-> "", refresh_token |-> "rt", token_expires_at |-> At(0)]}

Account(act, tk) ==
  [is_active |-> act, access_token |-> tk.access_token, refresh_token |-> tk.refresh_token,
   token_expires_at |-> tk.token_expires_at, last_sync_at |-> NoTime]

ExpiringToken == [access_token |-> "at_old", refresh_token |-> "rt", token_expires_at |-> At(1)]
LastingToken == [access_token |-> "at_old", refresh_token |-> "rt", token_expires_at |-> NoTime]

AccountInits ==
  {f \in [Accounts -> {Account(act, tk) : act \in BOOLEAN, tk \in TokenStates}] :
     /\ ~f[1].is_active => f[1] = Account(FALSE, ExpiringToken)
     /\ f[2] \in {Account(TRUE, LastingToken), Account(FALSE, ExpiringToken)}}

InitProcIdle ==
  /\ p_msg = Mail[3]
  /\ p_ai = AIRaise
  /\ p_pattern = classify_email(Mail[3])
  /\ p_result = PatternReturn(classify_email(Mail[3]))
  /\ p_called = FALSE
  /\ p_done = FALSE
  /\ InitAnalyzerIdle

InitSyncCore ==
  /\ detected = <<>>
  /\ applications = {[company_name |-> "Acme", created_by |-> 2]}
  /\ now = 0
  /\ pc = "idle"
  /\ cur = 1
  /\ caller = "direct"
  /\ emails = <<>>
  /\ idx = 1
  /\ stats = ZeroStats
  /\ ret = NoRet
  /\ events = <<>>
  /\ det0 = <<>>
  /\ last = NoLast
  /\ queue = <<>>
  /\ summary = ZeroSummary
  /\ driverLog = <<>>
  /\ calls = 0
  /\ rejSkipped = {}

InitSyncIdle ==
  /\ InitSyncCore
  /\ InitExtraIdle

(* everything but the state of the calls modelled apart from the sync *)
InitBase ==
  /\ accounts = (1 :> Account(TRUE, LastingToken)) @@ (2 :> Account(TRUE, LastingToken))
  /\ acct0 = NoAccount
  /\ InitSyncCore
  /\ InitProcIdle

Init ==
  /\ accounts = (1 :> Account(TRUE, LastingToken)) @@ (2 :> Account(TRUE, LastingToken))
  /\ acct0 = NoAccount
  /\ InitSyncIdle
  /\ InitProcIdle

Next ==
  \/ \E a \in Accounts : SyncCall(a)
  \/ InitServices
  \/ FetchFail
  \/ FetchOk
  \/ ProcessMessage
  \/ FinishRun
  \/ SyncReturn
  \/ CreateApplication
  \/ ReviewStatusChange

Spec == Init /\ [][Next]_vars

(* ---------------- specification of the accounts and the driver ---------------- *)
(* Every account state, few messages. *)
BatchesFew == {<<>>, <<1>>, <<3>>, <<1, 3>>}
AIFew == {AIRaise, AIResult("application_confirmation", 90, "Globex")}
FaultsFew == {"none", "save"}

FetchOkFew == FetchOkFrom(BatchesFew)
ProcessMessageFew == ProcessMessageWith(AIFew, FaultsFew)

InitAccounts ==
  /\ accounts \in AccountInits
  /\ acct0 = NoAccount
  /\ InitSyncIdle
  /\ InitProcIdle

NextAccounts ==
  \/ \E a \in Accounts : SyncCall(a)
  \/ RefreshFail
  \/ RefreshOk
  \/ InitServices
  \/ FetchFail
  \/ FetchOkFew
  \/ ProcessMessageFew
  \/ FinishRun
  \/ SyncReturn
  \/ DriverStart
  \/ DriverCall
  \/ DriverCollect
  \/ DriverReturn
  \/ Tick

SpecAccounts == InitAccounts /\ [][NextAccounts]_vars

(* ---------------- specification of one process_email call ---------------- *)
ProcMessages ==
  [app : BOOLEAN, rej : BOOLEAN, ass : BOOLEAN,
   content_company : {NoneV, "Acme", "Glassdoor", "Gmail", "Indeed", "This Time"},
   sender_label : {NoneV, "acme", "gmail", "indeed", "shinetech", "naukrigulf"}]

AIAll ==
  {AIRaise} \cup
  [kind : {"result"},
   type : {"application_confirmation", "application", "rejection", "interview", "other", "unknown", NoneV},
   confidence : {0, 50, 80, 90, 150},
   company_name : {NoneV, "", "Acme", NonStr},
   error : BOOLEAN]

InitProc ==
  /\ accounts = [a \in Accounts |->
                   [is_active |-> TRUE, access_token |-> "at_old", refresh_token |-> "rt",
                    token_expires_at |-> NoTime, last_sync_at |-> NoTime]]
  /\ acct0 = NoAccount
  /\ InitSyncIdle
  /\ p_msg \in ProcMessages
  /\ p_ai \in AIAll
  /\ p_pattern = classify_email(Mail[3])
  /\ p_result = PatternReturn(classify_email(Mail[3]))
  /\ p_called = FALSE
  /\ p_done = FALSE
  /\ InitAnalyzerIdle

(* EmailProcessor.process_email on p_msg, the analyzer answering p_ai if asked *)
ProcessEmailCall ==
  /\ ~p_done
  /\ p_done' = TRUE
  /\ p_pattern' = classify_email(p_msg)
  /\ p_called' = should_use_ai(classify_email(p_msg))
  /\ p_result' = process_email(classify_email(p_msg), p_ai)
  /\ UNCHANGED <<p_msg, p_ai, syncVars, anVars, extraVars>>

NextProc == ProcessEmailCall

SpecProc == InitProc /\ [][NextProc]_vars

(* ---------------- specification of the analyzer and its cache ---------------- *)
InitAnalyzer ==
  /\ accounts = (1 :> Account(TRUE, LastingToken)) @@ (2 :> Account(TRUE, LastingToken))
  /\ acct0 = NoAccount
  /\ InitSyncIdle
  /\ p_msg = Mail[3]
  /\ p_ai = AIRaise
  /\ p_pattern = classify_email(Mail[3])
  /\ p_result = PatternReturn(classify_email(Mail[3]))
  /\ p_called = FALSE
  /\ p_done = FALSE
  /\ a_client \in BOOLEAN
  /\ a_cache = [k \in CacheKeys |-> NoEntry]
  /\ a_clock = 0
  /\ a_calls = 0
  /\ a_succ = [t \in Triples |-> <<>>]
  /\ a_last = NoLastAnalysis

NextAnalyzer ==
  \/ AnalyzeEmail
  \/ AnalyzerTick

SpecAnalyzer == InitAnalyzer /\ [][NextAnalyzer]_vars

(* ---------------- specification of one fetch_recent_emails call ---------------- *)
InitFetch ==
  /\ InitBase
  /\ f_list \in ListOutcomes
  /\ f_gets \in UNION {[1..n -> GetOutcomes] : n \in 0..MaxBatch}
  /\ f_ret = NoFetch
  /\ f_done = FALSE
  /\ InitStageIdle
  /\ InitViewIdle
  /\ InitRaceIdle
  /\ InitRunsIdle

NextFetch == FetchRecentEmails

SpecFetch == InitFetch /\ [][NextFetch]_vars

(* ---------------- specification of the stage API ---------------- *)
InitStage ==
  /\ InitBase
  /\ InitFetchIdle
  /\ st_stages = Stages
  /\ st_apps \in [Apps -> Stages \cup {NoStage}]
  /\ st_resp = NoStageRequest
  /\ InitViewIdle
  /\ InitRaceIdle
  /\ InitRunsIdle

NextStage ==
  \/ \E s \in Stages : StageDestroy(s)
  \/ \E a \in Apps, s \in Stages \cup {NoStage} : MoveApplication(a, s)

SpecStage == InitStage /\ [][NextStage]_vars

(* ---------------- specification of a caching viewset ---------------- *)
InitView ==
  /\ InitBase
  /\ InitFetchIdle
  /\ InitStageIdle
  /\ v_db = [pk \in Pks |-> NeverRow]
  /\ v_cache = [k \in ViewKeys |-> <<>>]
  /\ v_pattern \in BOOLEAN
  /\ v_last = NoViewRequest
  /\ InitRaceIdle
  /\ InitRunsIdle

NextView ==
  \/ \E q \in QueryParams : ViewList(q)
  \/ \E pk \in Pks : ViewRetrieve(pk)
  \/ \E pk \in Pks : ViewCreate(pk)
  \/ \E pk \in Pks : ViewUpdate(pk)
  \/ \E pk \in Pks : ViewDestroy(pk)

SpecView == InitView /\ [][NextView]_vars

(* ---------------- specification of concurrent analyze_email calls ---------------- *)
InitRace ==
  /\ accounts = (1 :> Account(TRUE, LastingToken)) @@ (2 :> Account(TRUE, LastingToken))
  /\ acct0 = NoAccount
  /\ InitSyncCore
  /\ p_msg = Mail[3]
  /\ p_ai = AIRaise
  /\ p_pattern = classify_email(Mail[3])
  /\ p_result = PatternReturn(classify_email(Mail[3]))
  /\ p_called = FALSE
  /\ p_done = FALSE
  /\ a_client \in BOOLEAN
  /\ a_cache = [k \in CacheKeys |-> NoEntry]
  /\ a_clock = 0
  /\ a_calls = 0
  /\ a_succ = [t \in Triples |-> <<>>]
  /\ a_last = NoLastAnalysis
  /\ InitFetchIdle
  /\ InitStageIdle
  /\ InitViewIdle
  /\ InitRunsIdle
  /\ r_pc = [c \in Callers |-> "start"]
  /\ r_resp = [c \in Callers |-> NoResponse]
  /\ r_up = 0

NextRace ==
  \/ \E c \in Callers : RaceLookup(c)
  \/ \E c \in Callers : RaceUpstream(c)
  \/ \E c \in Callers : RaceWrite(c)

SpecRace == InitRace /\ [][NextRace]_vars

(* ---------------- specification of concurrent sync runs ---------------- *)
InitRuns ==
  /\ InitBase
  /\ InitFetchIdle
  /\ InitStageIdle
  /\ InitViewIdle
  /\ InitRaceIdle
  /\ c_pc = [r \in Runs |-> "check"]
  /\ c_batch \in [Runs -> UNION {[1..n -> MsgIds] : n \in 1..MaxBatch}]
  /\ c_idx = [r \in Runs |-> 1]
  /\ c_seen = [r \in Runs |-> 0]
  /\ c_table = <<>>

NextRuns ==
  \/ \E r \in Runs : RunCheck(r)
  \/ \E r \in Runs : RunInsert(r)
  \/ \E r \in Runs : RunFinish(r)

SpecRuns == InitRuns /\ [][NextRuns]_vars

(* ======================= the claims ======================= *)
Running == pc \notin {"idle", "driver"}
MessageStep == pc = "loop" /\ idx' = idx + 1
Recorded(rows, a, id) ==
  \E i \in 1..Len(rows) : rows[i].email_account = a /\ rows[i].email_message_id = id
ValidCompany(n) == n \notin {NoneV, "", NonStr} /\ Lower(n) \notin invalid_names

(* C1: under sequential runs at most one detected row exists per (account, *)
(* message id), whatever the batches and the reviews in between; a message *)
(* whose id the lookup finds recorded for the account adds one to skipped, *)
(* creates nothing and is not given to process_email.                      *)
C1_UniquePerAccount ==
  \A i, j \in 1..Len(detected) :
     (/\ detected[i].email_account = detected[j].email_account
      /\ detected[i].email_message_id = detected[j].email_message_id) => i = j

C1_RecordedStep ==
  (MessageStep /\ Recorded(detected, cur, emails[idx]) /\ last'.fault # "dedup")
     => /\ stats'.skipped = stats.skipped + 1
        /\ stats'.created = stats.created
        /\ stats'.errors = stats.errors
        /\ detected' = detected
        /\ ~last'.proc_called

C1_Dedup == [](C1_UniquePerAccount) /\ [][C1_RecordedStep]_vars

(* a second run meets a message recorded by an earlier run and reviewed since *)
C1_Witness ==
  /\ pc = "loop" /\ last.dup /\ last.outcome = "skipped"
  /\ \E i \in 1..Len(det0) :
        /\ det0[i].email_account = cur /\ det0[i].email_message_id = last.id
        /\ det0[i].status = "accepted"

(* C2: every row the sync creates comes from a process_email result with a *)
(* job-related type, confidence >= 0.6 and a company name that is present  *)
(* and not a denylisted placeholder in any letter case; a result that      *)
(* fails one of these creates nothing and counts as skipped, not as error. *)
C2_Gates ==
  /\ \A i \in 1..Len(detected) :
        /\ detected[i].confidence_score >= 60
        /\ ValidCompany(detected[i].company_name)
  /\ last.outcome = "created" =>
        /\ last.type \in {"application", "rejection", "assessment", "interview", "interaction"}
        /\ last.confidence >= 60
        /\ ValidCompany(last.company_name)
        /\ detected # <<>>
        /\ detected[Len(detected)].company_name = last.company_name
        /\ detected[Len(detected)].confidence_score = last.confidence
  /\ (/\ last.proc_called /\ last.fault # "classify"
      /\ \/ last.type \notin {"application", "rejection", "assessment", "interview", "interaction"}
         \/ last.confidence < 60
         \/ last.company_name \in {NoneV, ""}
         \/ Lower(last.company_name) \in invalid_names)
     => last.outcome = "skipped"

(* in one run a row was created and a result naming "Unknown" was skipped *)
C2_Witness ==
  /\ pc = "loop" /\ stats.created = 1 /\ Len(detected) = Len(det0) + 1
  /\ last.proc_called /\ last.outcome = "skipped"
  /\ last.type = "interview" /\ last.confidence = 90 /\ last.company_name = "Unknown"

(* C3: a rejection that passes the other gates creates a row exactly when  *)
(* an Application of the account's user has the same company name up to    *)
(* letter case; otherwise it is skipped and leaves no row, so that a later *)
(* run creates the row once the Application exists.                        *)
ClaimedApplication(n) ==
  \E ap \in applications : Lower(ap.company_name) = Lower(n) /\ ap.created_by = UserOf(cur)

C3_RejectionGate ==
  (/\ pc = "loop" /\ last.proc_called /\ last.fault = "none"
   /\ last.type = "rejection" /\ last.confidence >= 60 /\ ValidCompany(last.company_name))
  => /\ last.outcome = "created" <=> ClaimedApplication(last.company_name)
     /\ last.outcome = "skipped" <=> ~ClaimedApplication(last.company_name)
     /\ last.outcome = "skipped" => ~Recorded(detected, cur, last.id)

(* the rejection skipped by an earlier run is created now that "acme" is tracked *)
C3_Witness ==
  /\ pc = "loop" /\ last.type = "rejection" /\ last.outcome = "created"
  /\ last.company_name = "Acme" /\ <<cur, last.id>> \in rejSkipped
  /\ [company_name |-> "acme", created_by |-> UserOf(cur)] \in applications

(* C8: an exception while one message is processed adds one to errors and  *)
(* nothing else, the loop goes on with the next message, and the run       *)
(* returns its counts with every message of the batch processed.           *)
C8_ErrorStep ==
  (MessageStep /\ last'.fault # "none")
     => /\ stats'.errors = stats.errors + 1
        /\ stats'.created = stats.created
        /\ stats'.skipped = stats.skipped
        /\ stats'.processed = stats.processed + 1
        /\ detected' = detected
        /\ pc' = "loop"

C8_BatchCompletes ==
  (pc = "returned" /\ "fetch_done" \in Range(events))
     => ret.kind = "return" /\ ret.stats.processed = Len(emails)

C8_ErrorsIsolated == [](C8_BatchCompletes) /\ [][C8_ErrorStep]_vars

(* the first message raised, the second one was still processed and created a row *)
C8_Witness ==
  /\ pc = "returned" /\ ret.kind = "return" /\ Len(emails) = 2
  /\ ret.stats.errors = 1 /\ ret.stats.created = 1 /\ last.id = emails[2]
  /\ last.outcome = "created"

(* C4: a run on an inactive account returns at once with all counts zero: *)
(* no refresh, no fetch, no row created, no field of the account changed.  *)
C4_InactiveReturnsZero ==
  (Running /\ ~acct0.is_active)
     => /\ pc = "returned"
        /\ ret.kind = "return"
        /\ ret.stats = [processed |-> 0, created |-> 0, skipped |-> 0, errors |-> 0]
        /\ events = <<>>
        /\ detected = det0
        /\ accounts[cur] = acct0

(* the inactive account's token had expired and could have been refreshed *)
C4_Witness ==
  /\ pc = "returned" /\ ~acct0.is_active
  /\ acct0.token_expires_at # NoTime /\ acct0.token_expires_at[1] <= now
  /\ acct0.refresh_token # ""

(* C5: on an active account the refresh is attempted exactly when the      *)
(* expiry is set, is not later than now and a refresh token exists; an     *)
(* attempt either stored the new access token or failed, and in both cases *)
(* it is over before the fetch adapter is first called.                    *)
ClaimedRefreshDue ==
  /\ acct0.token_expires_at # NoTime
  /\ acct0.token_expires_at[1] <= now
  /\ acct0.refresh_token # ""

C5_RefreshBeforeFetch ==
  (Running /\ acct0.is_active)
     => /\ pc = "refresh" => ClaimedRefreshDue /\ events = <<>>
        /\ pc # "refresh" => ("refresh_attempt" \in Range(events) <=> ClaimedRefreshDue)
        /\ "refresh_attempt" \in Range(events) =>
              /\ events[1] = "refresh_attempt"
              /\ events[2] \in {"refresh_done", "refresh_failed"}
              /\ events[2] = "refresh_done" => accounts[cur].access_token = "at_new"
              /\ events[2] = "refresh_failed" => Len(events) = 2
        /\ \A i \in 1..Len(events) : events[i] = "fetch" =>
              \A j \in 1..Len(events) : events[j] \in {"refresh_attempt", "refresh_done"} => j < i

(* the token expired exactly now, was refreshed, and then the batch was fetched *)
C5_Witness ==
  /\ pc = "loop" /\ acct0.token_expires_at = At(now)
  /\ events = <<"refresh_attempt", "refresh_done", "fetch", "fetch_done">>
  /\ acct0.access_token = "at_old" /\ accounts[cur].access_token = "at_new"

(* C6: when the refresh fails the run raises, the account keeps its access *)
(* token, expiry and last_sync_at, the fetch adapter is not called and no  *)
(* row is created.                                                         *)
C6_RefreshFailureFatal ==
  "refresh_failed" \in Range(events)
     => /\ pc = "returned"
        /\ ret.kind = "raise"
        /\ accounts[cur].access_token = acct0.access_token
        /\ accounts[cur].token_expires_at = acct0.token_expires_at
        /\ accounts[cur].last_sync_at = acct0.last_sync_at
        /\ "fetch" \notin Range(events)
        /\ detected = det0
        /\ ret.stats.created = 0

C6_Witness ==
  /\ pc = "returned" /\ events = <<"refresh_attempt", "refresh_failed">>
  /\ ret.kind = "raise" /\ acct0.is_active

(* C7: a run whose fetch succeeded returns its counts and leaves           *)
(* last_sync_at at the completion time, whatever was skipped or counted as *)
(* an error, the empty batch included.                                     *)
C7_LastSyncUpdated ==
  /\ (pc = "returned" /\ "fetch_done" \in Range(events))
        => /\ ret.kind = "return"
           /\ ret.stats = stats
           /\ accounts[cur].last_sync_at = At(now)
  /\ (pc = "loop" /\ idx > Len(emails)) => ENABLED FinishRun

(* a second run, later, with an error and a skip in its batch *)
C7_Witness ==
  /\ pc = "returned" /\ ret.kind = "return"
  /\ ret.stats.errors = 1 /\ ret.stats.skipped = 1
  /\ acct0.last_sync_at = At(0) /\ accounts[cur].last_sync_at = At(1)

(* C9: the driver syncs every active account once and no inactive one; a   *)
(* failed account does not stop the later ones; when it returns,           *)
(* accounts_processed = accounts_succeeded + accounts_failed, errors has   *)
(* one entry per failed account and the totals are the sums over the       *)
(* accounts that succeeded.                                                *)
RECURSIVE SumOver(_, _)
SumOver(log, field) ==
  IF log = <<>> THEN 0
  ELSE (IF Head(log).kind = "return" THEN Head(log)[field] ELSE 0) + SumOver(Tail(log), field)

FailedOf(log) == SelectSeq(log, LAMBDA e : e.kind = "raise")

C9_DriverSummary ==
  /\ pc = "driver" =>
        /\ \A i \in 1..Len(driverLog) : accounts[driverLog[i].account].is_active
        /\ \A i, j \in 1..Len(driverLog) : driverLog[i].account = driverLog[j].account => i = j
        /\ {driverLog[i].account : i \in 1..Len(driverLog)} \cup Range(queue)
              = {a \in Accounts : accounts[a].is_active}
        /\ summary.accounts_processed = Len(driverLog)
        /\ summary.accounts_processed = summary.accounts_succeeded + summary.accounts_failed
        /\ Len(summary.errors) = summary.accounts_failed
        /\ Len(FailedOf(driverLog)) = summary.accounts_failed
        /\ \A i \in 1..Len(summary.errors) :
              /\ summary.errors[i].account_id = FailedOf(driverLog)[i].account
              /\ summary.errors[i].email = EmailOf(summary.errors[i].account_id)
        /\ summary.total_emails_processed = SumOver(driverLog, "processed")
        /\ summary.total_detected_created = SumOver(driverLog, "created")
  /\ (pc = "returned" /\ caller = "driver") => ENABLED DriverCollect

(* the first account failed, the second was still synced and created a row *)
C9_Witness ==
  /\ pc = "driver" /\ queue = <<>> /\ Len(driverLog) = 2
  /\ driverLog[1].kind = "raise" /\ driverLog[2].kind = "return"
  /\ summary.accounts_failed = 1 /\ summary.accounts_succeeded = 1
  /\ summary.total_detected_created = 1

FallbackFailed == p_ai.kind = "raise" \/ p_ai.error

(* C11: when the deterministic pass classifies a message with confidence   *)
(* above 0.7, process_email returns the deterministic result: source       *)
(* 'pattern', used_ai False, the deterministic type and confidence (the    *)
(* test expects it of an application message).                             *)
C11_HighConfidencePattern ==
  (p_done /\ p_pattern.confidence > 70)
     => /\ p_result.source = "pattern"
        /\ ~p_result.used_ai
        /\ p_result.type = p_pattern.type
        /\ p_result.confidence = p_pattern.confidence

(* C12: a failure of the analyzer, a mapping with an error key or an       *)
(* exception, never leaves process_email as an exception: a mapping is     *)
(* returned, with its type and a confidence that is 0 or the               *)
(* deterministic one.                                                      *)
C12_FailureContained ==
  (p_done /\ p_called /\ FallbackFailed)
     => /\ p_result.source \in {"pattern", "ai"}
        /\ \/ p_result.confidence = 0 /\ p_result.error
           \/ p_result = PatternReturn(p_pattern)

(* the analyzer raised on an application message and a mapping came back *)
C12_Witness ==
  /\ p_done /\ p_called /\ p_ai.kind = "raise" /\ p_pattern.type = "application"
  /\ p_result.source = "pattern" /\ p_result.type = "application"

(* C13 as stated: whenever the analyzer was called and failed on a message *)
(* whose deterministic type is application or None, the result is unknown  *)
(* with confidence 0 and the error, never the deterministic result.        *)
C13_FailureUnknown ==
  (p_done /\ p_called /\ FallbackFailed /\ p_pattern.type \in {"application", NoneV})
     => /\ p_result.type = "unknown"
        /\ p_result.confidence = 0
        /\ p_result.error
        /\ p_result.source # "pattern"

(* C13 amended: a mapping with an error key gives confidence 0, the error  *)
(* and the mapping's own type, never the deterministic result; an          *)
(* exception gives unknown, confidence 0 and the error when the            *)
(* deterministic type is None, and the deterministic result when it is     *)
(* application.                                                            *)
C13_FailureReported ==
  (p_done /\ p_called /\ FallbackFailed /\ p_pattern.type \in {"application", NoneV})
     => /\ (p_ai.kind = "result" /\ p_ai.error)
              => /\ p_result.type = p_ai.type
                 /\ p_result.confidence = 0
                 /\ p_result.error
                 /\ p_result.source = "ai"
        /\ (p_ai.kind = "raise" /\ p_pattern.type = NoneV)
              => /\ p_result.type = "unknown"
                 /\ p_result.confidence = 0
                 /\ p_result.error
                 /\ p_result.source = "ai"
        /\ (p_ai.kind = "raise" /\ p_pattern.type = "application")
              => /\ p_result.source = "pattern"
                 /\ p_result.type = "application"
                 /\ p_result.confidence = p_pattern.confidence
                 /\ p_result.company_name = p_pattern.company_name
                 /\ ~p_result.error

(* an application message whose analysis came back as an error mapping *)
C13_Witness ==
  /\ p_done /\ p_called /\ p_pattern.type = "application"
  /\ p_ai.kind = "result" /\ p_ai.error /\ p_ai.type = "unknown"
  /\ p_result.type = "unknown" /\ p_result.confidence = 0 /\ p_result.error

(* C14: used_ai is true in the result exactly when the analyzer was called *)
(* for the message, whichever result is returned.                          *)
C14_UsedAiIffInvoked ==
  p_done => (p_result.used_ai <=> p_called)

(* C15: confidence lies in [0,1] in every result of classify_email and of  *)
(* process_email and in the confidence_score of every row the sync would   *)
(* persist from it, whatever the analyzer answers.                         *)
C15_ConfidenceInRange ==
  p_done =>
     /\ p_pattern.confidence \in 0..100
     /\ p_result.confidence \in 0..100
     /\ Gate(p_result, applications, UserOf(cur)) = "create"
           => NewDetected(cur, 1, p_result, now).confidence_score \in 0..100

(* C16: classify_email tries application, rejection, assessment in that    *)
(* order and the first family that matches decides: 0.85, 0.80, 0.75, and  *)
(* None with 0.0 when nothing matches; needs_ai is false for every matched *)
(* message and true for every unmatched one.                               *)
C16_FirstFamilyWins ==
  p_done =>
     /\ p_msg.app => p_pattern.type = "application" /\ p_pattern.confidence = 85
     /\ (~p_msg.app /\ p_msg.rej) => p_pattern.type = "rejection" /\ p_pattern.confidence = 80
     /\ (~p_msg.app /\ ~p_msg.rej /\ p_msg.ass)
           => p_pattern.type = "assessment" /\ p_pattern.confidence = 75
     /\ (~p_msg.app /\ ~p_msg.rej /\ ~p_msg.ass)
           => p_pattern.type = NoneV /\ p_pattern.confidence = 0
     /\ p_pattern.needs_ai <=> ~(p_msg.app \/ p_msg.rej \/ p_msg.ass)

(* a text that matches all three families is an application *)
C16_Witness ==
  /\ p_done /\ p_msg.app /\ p_msg.rej /\ p_msg.ass
  /\ p_pattern.type = "application" /\ p_pattern.confidence = 85 /\ ~p_pattern.needs_ai

(* C17: the company_name of the deterministic extraction is never the name *)
(* of a personal-email provider or of a known job board, from the content  *)
(* or from the sender; where_applied is the board's name when the sender's *)
(* domain is a known job board and null for any other sender.              *)
C17_NoProviderOrBoardName ==
  p_done =>
     /\ Lower(p_pattern.company_name) \notin PERSONAL_DOMAINS \cup JOB_BOARD_DOMAINS
     /\ p_msg.sender_label \in JOB_BOARD_DOMAINS
           => p_pattern.where_applied = Title(p_msg.sender_label)
     /\ p_msg.sender_label \notin JOB_BOARD_DOMAINS => p_pattern.where_applied = NoneV

C19_CachedWithinTTL ==
  (a_last.called /\ a_last.prior # <<>>)
     => /\ ~a_last.upstream
        /\ a_last.result = a_last.prior[1]

(* C20: a result cached for one triple is never returned for a different   *)
(* triple: each distinct triple causes its own upstream call.              *)
C20_NoSharedEntry ==
  (a_last.called /\ a_last.hit) => a_last.stored_by = a_last.triple

(* ---------------------------------------------------------------------- *)
(* C21                                                                     *)
(* ---------------------------------------------------------------------- *)
RECURSIVE OkIds(_, _)
OkIds(gets, i) ==
  IF i > Len(gets) THEN <<>>
  ELSE IF gets[i] = "ok" THEN <<i>> \o OkIds(gets, i + 1)
  ELSE OkIds(gets, i + 1)

AuthFailureIn(gets) == \E i \in 1..Len(gets) : gets[i] = "http401"

(* C21: a fetch_recent_emails call raises when the list call fails and     *)
(* when any call of it fails with an authentication error (401); otherwise *)
(* it returns, in order, every message it could fetch and parse, whatever  *)
(* failed for the other messages.                                          *)
C21_FetchTolerance ==
  f_done =>
    /\ f_list \in {"http401", "http500", "other_exc"} => f_ret.kind = "raise"
    /\ f_list = "ok" /\ AuthFailureIn(f_gets) => f_ret.kind = "raise"
    /\ f_list = "ok" /\ ~AuthFailureIn(f_gets) =>
         f_ret.kind = "return" /\ f_ret.emails = OkIds(f_gets, 1)
    /\ f_list = "no_messages" => f_ret.kind = "return" /\ f_ret.emails = <<>>

(* ---------------------------------------------------------------------- *)
(* C22                                                                     *)
(* ---------------------------------------------------------------------- *)
RefreshSucceeds == pc = "refresh" /\ pc' = "services"

C23_StageDeletion ==
  st_resp.op = "destroy" =>
    LET s == st_resp.stage
        n == Cardinality(ApplicationsIn(st_resp.apps0, s))
    IN /\ st_resp.status = 204 <=> (s \in st_resp.stages0 /\ n = 0)
       /\ st_resp.status = 204 => st_stages = st_resp.stages0 \ {s} /\ st_apps = st_resp.apps0
       /\ (s \in st_resp.stages0 /\ n > 0) =>
            /\ st_resp.status = 400
            /\ st_resp.error_count = n
            /\ st_stages = st_resp.stages0
            /\ st_apps = st_resp.apps0

C23_Witness ==
  /\ st_resp.op = "destroy"
  /\ st_resp.status = 204
  /\ st_resp.stage \in st_resp.refused
  /\ \E a \in Apps : st_apps[a] \in st_stages

(* ---------------------------------------------------------------------- *)
(* C24                                                                     *)
(* ---------------------------------------------------------------------- *)
(* C24: once the user has created, updated or deleted an object through    *)
(* the viewset, every list and every retrieve the same user makes answers  *)
(* with the rows as they are: a response cached before a write is never    *)
(* served after it.                                                        *)
C24_ReadsReflectWrites ==
  /\ (v_last.op = "list" /\ v_last.writes > 0) => v_last.data = ListData(v_db)
  /\ (v_last.op = "retrieve" /\ v_last.writes > 0) =>
       IF Live(v_db, v_last.arg)
         THEN v_last.status = 200 /\ v_last.data = DetailData(v_db, v_last.arg)
       ELSE v_last.status = 404

(* ---------------------------------------------------------------------- *)
(* C25                                                                     *)
(* ---------------------------------------------------------------------- *)
FallbackAnswered == p_done /\ p_called /\ ~FallbackFailed

ApplicationLike == {"application", "application_confirmation"}

(* the returned mapping is the fallback's: its category (application for   *)
(* application_confirmation, unknown for none), its confidence, origin ai  *)
FallbackReturned ==
  /\ p_result.source = "ai"
  /\ p_result.used_ai
  /\ p_result.confidence = p_ai.confidence
  /\ p_result.type = IF p_ai.type = NoneV THEN "unknown" ELSE NormalizeAIType(p_ai.type)

MoreConfident == p_ai.confidence > p_pattern.confidence

(* rule (a) where every reading of it applies, and where some reading does *)
NamedApplication ==
  /\ p_pattern.type = "application"
  /\ p_ai.type \in ApplicationLike
  /\ Truthy(p_ai.company_name)

NamedApplicationAtMost ==
  /\ p_pattern.type = "application" \/ p_ai.type \in ApplicationLike
  /\ Truthy(p_ai.company_name)

C26_DetectedAtFromHeader ==
  \A i \in DOMAIN detected :
    LET d == MailDate[detected[i].email_message_id]
    IN IF Truthy(d) /\ ParseDate(d) # NoTime
         THEN detected[i].detected_at = ParseDate(d)[1]
       ELSE detected[i].detected_at \in 0..now

(* ---------------------------------------------------------------------- *)
(* C27                                                                     *)
(* ---------------------------------------------------------------------- *)
(* C27: however many callers analyse the same content concurrently, the    *)
(* upstream is called at most twice in all.                                *)
C27_AtMostTwoUpstreamCalls == r_up <= 2

(* C27 as the code has it: each caller calls the upstream at most once, so *)
(* the upstream calls number at most the callers                           *)
C27_AtMostOnePerCaller ==
  /\ r_up = Cardinality({c \in Callers : r_resp[c] # NoResponse})
  /\ r_up <= MaxCallers

C27_Witness ==
  /\ \A c \in Callers : r_pc[c] = "returned"
  /\ r_up = MaxCallers
  /\ \A c \in Callers : r_resp[c].kind = "ok" /\ MappingTruthy(r_resp[c].value)

(* ---------------------------------------------------------------------- *)
(* C28                                                                     *)
(* ---------------------------------------------------------------------- *)
SameMessage(i, j) ==
  /\ c_table[i].row.email_account = c_table[j].row.email_account
  /\ c_table[i].row.email_message_id = c_table[j].row.email_message_id

(* C28: two rows for one (account, message id) exist only where the later  *)
(* row's run made its pending check before the earlier row was inserted,   *)
(* that is, where another run's insert fell between a run's check and its  *)
(* insert; runs that do not interleave there leave no such pair. The pair  *)
(* itself is reachable: nothing rejects the second insert.                 *)
C28_DuplicatesOnlyByInterleaving ==
  \A i, j \in 1..Len(c_table) :
    (i < j /\ SameMessage(i, j)) =>
      /\ c_table[j].seen < i
      /\ c_table[i].run # c_table[j].run

C28_Witness ==
  \E i, j \in 1..Len(c_table) : i < j /\ SameMessage(i, j)

C30_ErrorsNotCached ==
  [][ /\ a_cache' # a_cache => (a_last'.upstream /\ a_last'.response = "ok")
      /\ \A k \in CacheKeys : a_cache'[k].present => ~a_cache'[k].value.error
      /\ (a_last' # a_last /\ a_last'.after_failure) =>
           /\ ~a_last'.hit
           /\ a_client => a_last'.upstream ]_vars

C30_Witness ==
  /\ a_last.called /\ a_last.after_failure
  /\ a_client
  /\ a_last.upstream /\ a_last.response = "ok"
  /\ a_cache[CacheKey(a_last.triple)].present
  /\ a_cache[CacheKey(a_last.triple)].value = a_last.result

====
